---- MODULE Spec2Model ----
(***************************************************************************)
(* Apple Health ingestion pipeline: sample extraction (parser.py), the     *)
(* streaming bucket aggregator and the hourly->daily rollup                *)
(* (aggregator.py), the store client (influx_client.py) and the ingestion  *)
(* controller (ingest.py main/ingest_file, webhook.py run_import).         *)
(*                                                                         *)
(* Time is counted in minutes.  A timestamp is a record                    *)
(*   [wall |-> minutes of the wall clock reading, off |-> UTC offset]      *)
(* like a Python aware datetime: its fields are the wall clock, equality   *)
(* and hashing go by the absolute instant wall - off.                      *)
(*                                                                         *)
(* A call of the write API is taken to reach the store when it is made:    *)
(* the buffering the client library does behind write() is not modelled,   *)
(* so the log of a run (run.ops) is the sequence of calls the run makes.   *)
(* The store keeps one point per (measurement, tag set, time).             *)
(***************************************************************************)
EXTENDS Integers, Sequences, FiniteSets, TLC

VARIABLES
    aggr,       \* a StreamingAggregator: [hourly |-> buckets, daily |-> buckets]
    added,      \* the samples given to aggr.add_sample since the last clear
    emitted,    \* the lists read from aggr by get_hourly_aggregates /
                \* get_daily_aggregates since the last add_sample or clear,
                \* and the samples added by then
    raw_pts,    \* store: points of measurement health_metrics
    hourly_pts, \* store: points of measurement health_metrics_hourly
    daily_pts,  \* store: points of measurement health_metrics_daily
    workout_pts,\* store: points of measurement workouts
    run,        \* the ingestion run in progress (locals of main/ingest_file/run_import)
    prev,       \* the last finished run and the store it left
    nruns,      \* number of runs started
    hook,       \* the webhook receiver: clock, saved files, import threads
    disp,       \* a call of write_metrics_batch / write_aggregated_batch: its locals
    px          \* a call of the extraction functions of parser.py: argument, result

vars == <<aggr, added, emitted, raw_pts, hourly_pts, daily_pts, workout_pts, run, prev, nruns,
          hook, disp, px>>

store_vars == <<raw_pts, hourly_pts, daily_pts, workout_pts>>
ingest_vars == <<raw_pts, hourly_pts, daily_pts, workout_pts, run, prev, nruns>>
agg_vars == <<aggr, added, emitted>>

----------------------------------------------------------------------------
(* Bounds and constants *)

\* minutes in an hour / a day (datetime.replace zeroes the smaller fields)
MinutesPerHour == 60
MinutesPerDay == 1440

\* float("inf") and float("-inf"), the initial min and max of a bucket
PosInf == 1000000
NegInf == -1000000

\* Significand width of the float model (53 for a Python float); sums are
\* rounded to this many significant bits, ties to even.
MantBits == 4

\* Number of add_sample calls explored per aggregator
MaxSamples == 3

\* Number of ingestion runs explored in a row
MaxRuns == 2

\* Flush threshold of write_*_batch (5000 in the source), scaled down
BatchCap == 2

\* Longest sequence of items given to a batch writer
MaxItems == 4

\* Number of requests the webhook receives
MaxPosts == 2

\* Seconds that pass while the webhook is observed (file names carry the
\* time of the request to the second)
MaxClock == 1

----------------------------------------------------------------------------
(* Floats *)

RECURSIVE Pow2(_)
Pow2(n) == IF n <= 0 THEN 1 ELSE 2 * Pow2(n - 1)

RECURSIVE ExpOf(_, _)
\* least e >= 0 with x < 2^(MantBits + e)
ExpOf(x, e) == IF x < Pow2(MantBits + e) THEN e ELSE ExpOf(x, e + 1)

\* round a non-negative exact value to the nearest float, ties to even
FRound(x) ==
    LET e == ExpOf(x, 0)
        u == Pow2(e)
        q == x \div u
        r == x % u
        up == (2 * r > u) \/ (2 * r = u /\ q % 2 = 1)
    IN  (IF up THEN q + 1 ELSE q) * u

\* float addition a + b (non-negative operands)
FAdd(a, b) == FRound(a + b)

FMin(a, b) == IF a <= b THEN a ELSE b
FMax(a, b) == IF a >= b THEN a ELSE b

\* float division a / b, kept as the exact quotient of its operands
FDiv(a, b) == [num |-> a, den |-> b]

RECURSIVE FSumFrom(_, _)
\* sum(iterable): left fold of + from 0
FSumFrom(acc, s) == IF s = <<>> THEN acc ELSE FSumFrom(FAdd(acc, Head(s)), Tail(s))
FSum(s) == FSumFrom(0, s)

RECURSIVE ISum(_)
\* sum() of ints (counts): exact
ISum(s) == IF s = <<>> THEN 0 ELSE Head(s) + ISum(Tail(s))

RECURSIVE SeqMin(_)
SeqMin(s) == IF Len(s) = 1 THEN s[1] ELSE FMin(s[1], SeqMin(Tail(s)))
RECURSIVE SeqMax(_)
SeqMax(s) == IF Len(s) = 1 THEN s[1] ELSE FMax(s[1], SeqMax(Tail(s)))

----------------------------------------------------------------------------
(* Timestamps *)

TS(w, o) == [wall |-> w, off |-> o]
At(d, h, m) == d * MinutesPerDay + h * MinutesPerHour + m

\* the absolute instant of an aware datetime: what ==, hash and the store see
Instant(t) == t.wall - t.off

\* a truncation of the time converted to UTC
TruncateToHourUTC(dt) == TS(Instant(dt) - (Instant(dt) % MinutesPerHour), 0)

truncate_to_hour(dt) == [dt EXCEPT !.wall = @ - (@ % MinutesPerHour)]
truncate_to_day(dt) == [dt EXCEPT !.wall = @ - (@ % MinutesPerDay)]

----------------------------------------------------------------------------
(* models.py *)

HealthMetricSample(m, t, v, u, src) ==
    [metric_name |-> m, timestamp |-> t, value |-> v, unit |-> u, source |-> src]

AggregatedMetric(m, t, u, c, s, a, lo, hi) ==
    [metric_name |-> m, timestamp |-> t, unit |-> u, count |-> c,
     sum_value |-> s, avg_value |-> a, min_value |-> lo, max_value |-> hi]

----------------------------------------------------------------------------
(* aggregator.py: StreamingAggregator *)

\* dict key equality of (metric_name, datetime, unit) tuples
KeyEq(m1, t1, u1, m2, t2, u2) == m1 = m2 /\ u1 = u2 /\ Instant(t1) = Instant(t2)

\* a lookup that finds a bucket by its period alone
BucketIndexByPeriod(buckets, m, t, u) ==
    LET hit == {i \in 1..Len(buckets) : Instant(buckets[i].ts) = Instant(t)}
    IN  IF hit = {} THEN 0 ELSE CHOOSE i \in hit : TRUE

\* position of the key in a dict kept in insertion order, 0 when absent
BucketIndex(buckets, m, t, u) ==
    LET hit == {i \in 1..Len(buckets) :
                    KeyEq(buckets[i].metric, buckets[i].ts, buckets[i].unit, m, t, u)}
    IN  IF hit = {} THEN 0 ELSE CHOOSE i \in hit : TRUE

\* a bucket whose min and max start at zero
NewBucketZeroed(m, t, u) ==
    [metric |-> m, ts |-> t, unit |-> u,
     count |-> 0, sum |-> 0, min |-> 0, max |-> 0]

NewBucket(m, t, u) ==
    [metric |-> m, ts |-> t, unit |-> u,
     count |-> 0, sum |-> 0, min |-> PosInf, max |-> NegInf]

\* an update that keeps the last value as the maximum
UpdateBucketLastMax(b, v) ==
    [b EXCEPT !.count = @ + 1, !.sum = FAdd(@, v),
              !.min = FMin(@, v), !.max = v]

UpdateBucket(b, v) ==
    [b EXCEPT !.count = @ + 1, !.sum = FAdd(@, v),
              !.min = FMin(@, v), !.max = FMax(@, v)]

\* "if key not in buckets: buckets[key] = {...}" then the four updates;
\* an existing key keeps the datetime object it was inserted with
AddToBuckets(buckets, m, t, u, v) ==
    LET i == BucketIndex(buckets, m, t, u)
        bs == IF i = 0 THEN Append(buckets, NewBucket(m, t, u)) ELSE buckets
        j == IF i = 0 THEN Len(bs) ELSE i
    IN  [bs EXCEPT ![j] = UpdateBucket(@, v)]

EmptyAggregator == [hourly |-> <<>>, daily |-> <<>>]

add_sample(a, sample) ==
    [hourly |-> AddToBuckets(a.hourly, sample.metric_name,
                             truncate_to_hour(sample.timestamp),
                             sample.unit, sample.value),
     daily  |-> AddToBuckets(a.daily, sample.metric_name,
                             truncate_to_day(sample.timestamp),
                             sample.unit, sample.value)]

Finalize(buckets) ==
    [i \in 1..Len(buckets) |->
        AggregatedMetric(buckets[i].metric, buckets[i].ts, buckets[i].unit,
                         buckets[i].count, buckets[i].sum,
                         FDiv(buckets[i].sum, buckets[i].count),
                         buckets[i].min, buckets[i].max)]

get_hourly_aggregates(a) == Finalize(a.hourly)
get_daily_aggregates(a) == Finalize(a.daily)

----------------------------------------------------------------------------
(* aggregator.py: aggregate_to_hourly, aggregate_to_daily *)

RECURSIVE GroupValues(_, _, _)
\* buckets[key].append(sample.value) for every sample; daily truncates to the day
GroupValues(groups, samples, daily) ==
    IF samples = <<>> THEN groups
    ELSE LET smp == Head(samples)
             t == IF daily THEN truncate_to_day(smp.timestamp)
                           ELSE truncate_to_hour(smp.timestamp)
             i == BucketIndex(groups, smp.metric_name, t, smp.unit)
             gs == IF i = 0
                   THEN Append(groups, [metric |-> smp.metric_name, ts |-> t,
                                        unit |-> smp.unit, values |-> <<smp.value>>])
                   ELSE [groups EXCEPT ![i].values = Append(@, smp.value)]
         IN  GroupValues(gs, Tail(samples), daily)

SummarizeValues(g) ==
    AggregatedMetric(g.metric, g.ts, g.unit, Len(g.values), FSum(g.values),
                     FDiv(FSum(g.values), Len(g.values)),
                     SeqMin(g.values), SeqMax(g.values))

aggregate_to_hourly(samples) ==
    LET groups == GroupValues(<<>>, samples, FALSE)
    IN  [i \in 1..Len(groups) |-> SummarizeValues(groups[i])]

aggregate_to_daily(samples) ==
    LET groups == GroupValues(<<>>, samples, TRUE)
    IN  [i \in 1..Len(groups) |-> SummarizeValues(groups[i])]

----------------------------------------------------------------------------
(* aggregator.py: aggregate_from_hourly_to_daily *)

RECURSIVE GroupByDay(_, _)
\* the defaultdict(list) of the first loop, in insertion order
GroupByDay(groups, hourly) ==
    IF hourly = <<>> THEN groups
    ELSE LET agg == Head(hourly)
             day == truncate_to_day(agg.timestamp)
             hit == {i \in 1..Len(groups) :
                        KeyEq(groups[i].metric, groups[i].ts, groups[i].unit,
                              agg.metric_name, day, agg.unit)}
             i == IF hit = {} THEN 0 ELSE CHOOSE k \in hit : TRUE
             gs == IF i = 0
                   THEN Append(groups, [metric |-> agg.metric_name, ts |-> day,
                                        unit |-> agg.unit, items |-> <<agg>>])
                   ELSE [groups EXCEPT ![i].items = Append(@, agg)]
         IN  GroupByDay(gs, Tail(hourly))

\* a rollup whose average is taken over the hours, not over the samples
CombineGroupMeanOfHours(g) ==
    LET n == Len(g.items)
        total_count == ISum([k \in 1..n |-> g.items[k].count])
        total_sum == FSum([k \in 1..n |-> g.items[k].sum_value])
    IN  AggregatedMetric(g.metric, g.ts, g.unit, total_count, total_sum,
                         FDiv(total_sum, n),
                         SeqMin([k \in 1..n |-> g.items[k].min_value]),
                         SeqMax([k \in 1..n |-> g.items[k].max_value]))

CombineGroup(g) ==
    LET n == Len(g.items)
        total_count == ISum([k \in 1..n |-> g.items[k].count])
        total_sum == FSum([k \in 1..n |-> g.items[k].sum_value])
    IN  AggregatedMetric(g.metric, g.ts, g.unit, total_count, total_sum,
                         IF total_count > 0 THEN FDiv(total_sum, total_count)
                                            ELSE FDiv(0, 1),
                         SeqMin([k \in 1..n |-> g.items[k].min_value]),
                         SeqMax([k \in 1..n |-> g.items[k].max_value]))

aggregate_from_hourly_to_daily(hourly) ==
    LET groups == GroupByDay(<<>>, hourly)
    IN  [i \in 1..Len(groups) |-> CombineGroup(groups[i])]

----------------------------------------------------------------------------
(* Views of a list of aggregates used to compare results *)

AggKey(a) == <<a.metric_name, Instant(a.timestamp), a.unit>>
KeysOf(aggs) == {AggKey(aggs[i]) : i \in 1..Len(aggs)}
\* the aggregates as a set of (key, count, sum, min, max)
StatsOf(aggs) ==
    {<<AggKey(aggs[i]), aggs[i].count, aggs[i].sum_value,
       aggs[i].min_value, aggs[i].max_value>> : i \in 1..Len(aggs)}
\* the same without the sum
CountMinMaxOf(aggs) ==
    {<<AggKey(aggs[i]), aggs[i].count,
       aggs[i].min_value, aggs[i].max_value>> : i \in 1..Len(aggs)}

----------------------------------------------------------------------------
(* Optional values: None is <<>>, a present value x is <<x>> *)

None == <<>>
Some(x) == <<x>>

----------------------------------------------------------------------------
(* parser.py *)

\* A timestamp field of the export: text made of a head and a tail.
\* text "ts" is a head 'YYYY-MM-DD HH:MM:SS' of 19 characters, "short" a
\* head with a field written without its leading zero ('2025-1-8 00:12:43',
\* which strptime accepts), "" is '' (or a missing field), "not-a-date" is
\* text that no format matches, "not-a-string" a JSON value that is truthy
\* and not a string (a number, a list).  The tail is "offset" (' +HHMM' of
\* t.off), "" or "junk" (text that is no offset).
DateText(text, t, tail) == [text |-> text, t |-> t, tail |-> tail]
DateStr(t) == DateText("ts", t, "offset")
EmptyStr == DateText("", TS(0, 0), "")
NotADate == DateText("not-a-date", TS(0, 0), "")
NotAString == DateText("not-a-string", TS(0, 0), "")

\* a datetime without tzinfo
NaiveTS(wall) == [wall |-> wall, tzinfo |-> "None"]

\* An exception that leaves the function: a pair, where None is <<>> and a
\* present value <<x>>
Raised == <<"raise", "Error">>

\* datetime.strptime(s, "%Y-%m-%d %H:%M:%S %z"): None stands for ValueError
StrptimeOffset(s) ==
    IF s.text \in {"ts", "short"} /\ s.tail = "offset" THEN Some(s.t) ELSE None

\* datetime.strptime(s, "%Y-%m-%d %H:%M:%S"): None stands for ValueError
StrptimeNaive(s) ==
    IF s.text \in {"ts", "short"} /\ s.tail = "" THEN Some(NaiveTS(s.t.wall))
    ELSE None

\* a fallback that parses the whole text
WholeText(s) == s

\* date_str[:19]: a head of 19 characters loses its tail, a shorter head
\* keeps the beginning of it
First19(s) ==
    IF s.text = "ts" THEN [s EXCEPT !.tail = ""]
    ELSE IF s.text = "short" /\ s.tail # "" THEN [s EXCEPT !.tail = "junk"]
    ELSE s

\* strptime raises TypeError for an argument that is not a string, and only
\* ValueError is caught
parse_timestamp(date_str) ==
    IF date_str.text = "" THEN None
    ELSE IF date_str.text = "not-a-string" THEN Raised
    ELSE IF StrptimeOffset(date_str) # None THEN StrptimeOffset(date_str)
    ELSE StrptimeNaive(First19(date_str))

\* A JSON value of a qty or value field: a number, or a string that is not
\* the text of a number
Num(n) == [json |-> "number", n |-> n]
NotANumber == [json |-> "string", n |-> 0]

\* float(value): <<x>>, or Raised (ValueError) for text that is no number
float(value) == IF value.json = "number" THEN Some(value.n) ELSE Raised

\* one entry of metric["data"]: qty and value are None or a JSON value
DataPoint(date, start, qty, value) ==
    [date |-> date, start |-> start, qty |-> qty, value |-> value, source |-> "s"]

\* the body of the inner loop: <<sample>> when one is yielded, <<>> on
\* continue, Raised when an exception leaves the generator
ParsePoint(metric_name, unit, sample) ==
    LET date_str == IF sample.date.text # "" THEN sample.date ELSE sample.start
        timestamp == parse_timestamp(date_str)
        value == IF sample.qty # None THEN sample.qty ELSE sample.value
    IN  IF timestamp = Raised THEN Raised
        ELSE IF timestamp = None THEN <<>>
        ELSE IF value = None THEN <<>>
        ELSE IF float(value[1]) = Raised THEN Raised
        ELSE <<HealthMetricSample(metric_name, timestamp[1], float(value[1])[1],
                                  unit, sample.source)>>

\* an exception leaves the generator at one of the points
PointsRaise(metric_name, unit, points) ==
    \E i \in 1..Len(points) : ParsePoint(metric_name, unit, points[i]) = Raised

RECURSIVE ParsePoints(_, _, _)
\* the samples yielded from the points, up to the first that raises
ParsePoints(metric_name, unit, points) ==
    IF points = <<>> THEN <<>>
    ELSE LET r == ParsePoint(metric_name, unit, Head(points))
         IN  IF r = Raised THEN <<>>
             ELSE r \o ParsePoints(metric_name, unit, Tail(points))

RECURSIVE ParseMetricList(_)
ParseMetricList(metrics) ==
    IF metrics = <<>> THEN <<>>
    ELSE ParsePoints(Head(metrics).name, Head(metrics).units, Head(metrics).data)
         \o (IF PointsRaise(Head(metrics).name, Head(metrics).units,
                            Head(metrics).data)
             THEN <<>>
             ELSE ParseMetricList(Tail(metrics)))

\* the samples the generator yields before it ends or raises
parse_metrics(data) == ParseMetricList(data.metrics)

\* the generator raises instead of ending
MetricsRaise(data) ==
    \E i \in 1..Len(data.metrics) :
        PointsRaise(data.metrics[i].name, data.metrics[i].units,
                    data.metrics[i].data)

RECURSIVE ParseWorkoutList(_)
\* parse_workouts: a workout without a parsable start is skipped
ParseWorkoutList(ws) ==
    IF ws = <<>> THEN <<>>
    ELSE (IF parse_timestamp(Head(ws).start) = None THEN <<>>
          ELSE <<[workout_id |-> Head(ws).id,
                  start_time |-> parse_timestamp(Head(ws).start)[1]]>>)
         \o ParseWorkoutList(Tail(ws))

parse_workouts(data) == ParseWorkoutList(data.workouts)

RECURSIVE CountPoints(_)
CountPoints(metrics) ==
    IF metrics = <<>> THEN 0
    ELSE Len(Head(metrics).data) + CountPoints(Tail(metrics))

\* HealthDataParser.get_summary
get_summary(data) ==
    [total_metric_samples |-> CountPoints(data.metrics),
     total_workouts |-> Len(data.workouts)]

\* HealthDataParser(file_path, since=since): the samples after the watermark
After(t, since) == since = None \/ Instant(t) > Instant(since[1])

get_metrics(data, since) ==
    SelectSeq(parse_metrics(data), LAMBDA smp : After(smp.timestamp, since))

get_workouts(data, since) ==
    SelectSeq(parse_workouts(data), LAMBDA w : After(w.start_time, since))

----------------------------------------------------------------------------
(* influx_client.py: the store holds one point per                         *)
(* (measurement, tag set, timestamp); a write of an existing key replaces  *)

RawPoint(sample) ==
    [metric |-> sample.metric_name, source |-> sample.source,
     unit |-> sample.unit, time |-> Instant(sample.timestamp),
     value |-> sample.value]

RawKey(p) == <<p.metric, p.source, p.unit, p.time>>

AggPoint(agg) ==
    [metric |-> agg.metric_name, unit |-> agg.unit,
     time |-> Instant(agg.timestamp), count |-> agg.count,
     sum |-> agg.sum_value, avg |-> agg.avg_value,
     min |-> agg.min_value, max |-> agg.max_value]

AggKey3(p) == <<p.metric, p.unit, p.time>>

UpsertRaw(points, p) == {q \in points : RawKey(q) # RawKey(p)} \cup {p}

\* a write that adds a point beside the one of the same key
UpsertAggAppend(points, p) == points \cup {p}

UpsertAgg(points, p) == {q \in points : AggKey3(q) # AggKey3(p)} \cup {p}

\* write_metric: one point per call
write_metric(points, sample) == UpsertRaw(points, RawPoint(sample))

RECURSIVE WriteAll(_, _)
\* _write_api.write(record=points) of one batch
WriteAll(points, batch) ==
    IF batch = <<>> THEN points
    ELSE WriteAll(UpsertAgg(points, Head(batch)), Tail(batch))

RECURSIVE BatchLoopLate(_, _, _)
\* a loop that flushes once the buffer exceeds the capacity
BatchLoopLate(aggregates, buf, flushed) ==
    IF aggregates = <<>>
    THEN (IF buf # <<>> THEN Append(flushed, buf) ELSE flushed)
    ELSE LET pts == Append(buf, AggPoint(Head(aggregates)))
         IN  IF Len(pts) > BatchCap
             THEN BatchLoopLate(Tail(aggregates), <<>>, Append(flushed, pts))
             ELSE BatchLoopLate(Tail(aggregates), pts, flushed)

RECURSIVE BatchLoop(_, _, _)
\* the loop of write_aggregated_batch: the batches flushed, in order
BatchLoop(aggregates, buf, flushed) ==
    IF aggregates = <<>>
    THEN (IF buf # <<>> THEN Append(flushed, buf) ELSE flushed)
    ELSE LET pts == Append(buf, AggPoint(Head(aggregates)))
         IN  IF Len(pts) >= BatchCap
             THEN BatchLoop(Tail(aggregates), <<>>, Append(flushed, pts))
             ELSE BatchLoop(Tail(aggregates), pts, flushed)

Flushes(aggregates) == BatchLoop(aggregates, <<>>, <<>>)

RECURSIVE ApplyFlushes(_, _, _)
\* the store after the first k flushes
ApplyFlushes(points, flushes, k) ==
    IF k = 0 \/ flushes = <<>> THEN points
    ELSE ApplyFlushes(WriteAll(points, Head(flushes)), Tail(flushes), k - 1)

\* the time of the most recent point of health_metrics, a UTC datetime
MaxTime(points) == CHOOSE t \in {p.time : p \in points} :
                        \A p \in points : p.time <= t

get_last_import_time(points) ==
    IF points = {} THEN None ELSE Some(TS(MaxTime(points), 0))

\* get_last_import_times(): the last import time of each measurement; the
\* runs read the entry "raw"
get_last_import_times(points) == [raw |-> get_last_import_time(points)]

\* delete_data_after(cutoff, measurement): range delete from cutoff on
delete_data_after(points, cutoff) == {p \in points : p.time < Instant(cutoff)}

\* write_workout: the summary point of one workout
UpsertWorkout(points, w) ==
    {q \in points : ~(q.workout_id = w.workout_id /\ q.time = Instant(w.start_time))}
    \cup {[workout_id |-> w.workout_id, time |-> Instant(w.start_time)]}

RECURSIVE WriteWorkouts(_, _, _)
WriteWorkouts(points, ws, k) ==
    IF k = 0 \/ ws = <<>> THEN points
    ELSE WriteWorkouts(UpsertWorkout(points, Head(ws)), Tail(ws), k - 1)

----------------------------------------------------------------------------
(* Export documents the runs are given *)

Pt(t, v) == DataPoint(DateStr(t), EmptyStr, Some(Num(v)), None)
Metric(name, units, data) == [name |-> name, units |-> units, data |-> data]
Document(metrics, workouts) == [metrics |-> metrics, workouts |-> workouts]

T1005 == TS(At(0, 10, 5), 0)
T1030 == TS(At(0, 10, 30), 0)
T1050 == TS(At(0, 10, 50), 0)
T1110 == TS(At(0, 11, 10), 0)

\* one sample at 10:30
DocW == Document(<<Metric("m", "u", <<Pt(T1030, 4)>>)>>, <<>>)
\* the samples before and after 10:30
DocB == Document(<<Metric("m", "u", <<Pt(T1005, 5), Pt(T1050, 7)>>)>>, <<>>)
\* a malformed record, samples of three hours, and a workout
DocC == Document(<<Metric("m", "u",
                     <<DataPoint(NotADate, EmptyStr, Some(Num(9)), None),
                       Pt(TS(At(0, 9, 20), 0), 2),
                       Pt(T1110, 3),
                       Pt(TS(At(0, 12, 40), 0), 1)>>)>>,
                 <<[id |-> "w1", start |-> DateStr(T1110)]>>)

\* a value that is not the text of a number, between two samples
DocV == Document(<<Metric("m", "u",
                     <<Pt(T1005, 5),
                       DataPoint(DateStr(T1030), EmptyStr, Some(NotANumber), None),
                       Pt(T1050, 7)>>)>>, <<>>)
\* a record without a value and a timestamp that is not a string
DocT == Document(<<Metric("m", "u",
                     <<DataPoint(DateStr(T1005), EmptyStr, None, None),
                       Pt(T1030, 4),
                       DataPoint(NotAString, EmptyStr, Some(Num(6)), None)>>)>>,
                 <<>>)

Docs == <<DocW, DocB, DocC, DocV, DocT>>
\* the documents of well-formed values and text timestamps
DocIds == {1, 2, 3}
\* all documents
AnyDocIds == DOMAIN Docs

----------------------------------------------------------------------------
(* ingest.py main / ingest_file and webhook.py run_import *)

ZeroStats ==
    [raw_metrics |-> 0, hourly_aggregates |-> 0, daily_aggregates |-> 0,
     workouts |-> 0, skipped_metrics |-> 0, skipped_workouts |-> 0]

IdleRun ==
    [pc |-> "idle", entry |-> "main", incremental |-> FALSE,
     write_raw |-> TRUE, write_hourly |-> TRUE, write_daily |-> TRUE,
     dry_run |-> FALSE, since_arg |-> None, doc |-> 1,
     since |-> None, w0 |-> None, err |-> "",
     samples |-> <<>>, workouts |-> <<>>, total |-> 0, total_workouts |-> 0,
     idx |-> 0, aggregator |-> EmptyAggregator, stats |-> ZeroStats,
     ops |-> <<>>, fed |-> <<>>, rawed |-> <<>>]

NoPrev ==
    [finished |-> FALSE, ok |-> FALSE, all_ok |-> TRUE, doc |-> 1,
     entry |-> "main", incremental |-> FALSE, since_arg |-> None,
     defaults |-> TRUE,
     raw |-> {}, hourly |-> {}, daily |-> {}]

\* the ways a run is started: the command line with or without
\* --incremental / --no-raw / --no-hourly / --no-daily, and the webhook
Option(entry, inc, since_arg, wr, wh, wd) ==
    [entry |-> entry, incremental |-> inc, since_arg |-> since_arg,
     write_raw |-> wr, write_hourly |-> wh, write_daily |-> wd,
     dry_run |-> FALSE]

RunOptions ==
    {Option("main", FALSE, None, TRUE, TRUE, TRUE),
     Option("main", TRUE, None, TRUE, TRUE, TRUE),
     Option("main", FALSE, Some(T1030), TRUE, TRUE, TRUE),
     Option("main", TRUE, Some(T1030), TRUE, TRUE, TRUE),
     Option("webhook", TRUE, None, TRUE, TRUE, TRUE)}

\* a call with flags: entry "ingest_file" is ingest_file called with a
\* connected client, entry "main" the command line
FlagOption(entry, inc, wr, wh, wd, dry) ==
    [Option(entry, inc, None, wr, wh, wd) EXCEPT !.dry_run = dry]

\* ingest_file with every combination of write_raw, write_hourly,
\* write_daily and dry_run; the command line with --incremental and a
\* granularity switched off; the command line with --dry-run
FlagOptions ==
    {FlagOption("ingest_file", FALSE, wr, wh, wd, dry) :
        wr \in BOOLEAN, wh \in BOOLEAN, wd \in BOOLEAN, dry \in BOOLEAN}
    \cup {FlagOption("main", TRUE, FALSE, TRUE, TRUE, FALSE),
          FlagOption("main", TRUE, TRUE, FALSE, FALSE, FALSE),
          FlagOption("main", FALSE, TRUE, TRUE, TRUE, TRUE)}

AllGranularities(r) == r.write_raw /\ r.write_hourly /\ r.write_daily

\* the record kept of the run that ended before the current one started,
\* with the store it left
Ended(r) ==
    IF r.pc = "idle" THEN NoPrev
    ELSE [finished |-> TRUE, ok |-> r.pc = "done",
          all_ok |-> prev.all_ok /\ r.pc = "done", doc |-> r.doc,
          entry |-> r.entry, incremental |-> r.incremental,
          since_arg |-> r.since_arg, defaults |-> AllGranularities(r),
          raw |-> raw_pts, hourly |-> hourly_pts, daily |-> daily_pts]

Log(r, op, arg) == Append(r.ops, [op |-> op, arg |-> arg])

\* the guards of ingest_file; run_import has no flags
Aggregating(r) == r.entry = "webhook" \/ r.write_hourly \/ r.write_daily
WritingRaw(r) == r.entry = "webhook" \/ (r.write_raw /\ ~r.dry_run)
WritingHourly(r) == r.entry = "webhook" \/ (r.write_hourly /\ ~r.dry_run)
WritingDaily(r) == r.entry = "webhook" \/ (r.write_daily /\ ~r.dry_run)
WritingWorkouts(r) == r.entry = "webhook" \/ ~r.dry_run
ProcessingMetrics(r) ==
    r.entry = "webhook" \/ r.write_raw \/ r.write_hourly \/ r.write_daily

StartRun(o, d) ==
    /\ run.pc \in {"idle", "done", "failed"}
    /\ nruns < MaxRuns
    /\ nruns' = nruns + 1
    /\ run' = [IdleRun EXCEPT !.pc = IF o.entry = "ingest_file" THEN "load"
                                     ELSE IF o.dry_run THEN "dry_run"
                                     ELSE "connect",
                              !.entry = o.entry,
                              !.dry_run = o.dry_run,
                              !.incremental = o.incremental,
                              !.since_arg = o.since_arg,
                              !.since = o.since_arg,
                              !.write_raw = o.write_raw,
                              !.write_hourly = o.write_hourly,
                              !.write_daily = o.write_daily,
                              !.doc = d,
                              !.w0 = get_last_import_time(raw_pts)]
    /\ prev' = Ended(run)
    /\ UNCHANGED <<store_vars, agg_vars, hook, disp, px>>

\* a store or file operation raises: main dies, run_import returns False
Fail(cause) ==
    /\ run' = [run EXCEPT !.pc = "failed", !.err = cause]
    /\ UNCHANGED <<store_vars, prev, nruns, agg_vars, hook, disp, px>>

\* main with --dry-run: the summary of the file is logged and main returns
\* before it connects or calls ingest_file
DryRunSummary ==
    /\ run.pc = "dry_run"
    /\ \/ LET summary == get_summary(Docs[run.doc])
          IN  /\ run' = [run EXCEPT
                    !.total = summary.total_metric_samples,
                    !.total_workouts = summary.total_workouts,
                    !.pc = "done"]
              /\ UNCHANGED <<store_vars, prev, nruns, agg_vars, hook, disp, px>>
       \/ Fail("file")

\* with HealthInfluxClient(...) as client; client.health_check()
Connect ==
    /\ run.pc = "connect"
    /\ \/ /\ run' = [run EXCEPT !.pc = IF run.incremental /\ run.since_arg = None
                                        THEN "watermark" ELSE "load"]
          /\ UNCHANGED <<store_vars, prev, nruns, agg_vars, hook, disp, px>>
       \/ Fail("store")

\* a read that falls back to the epoch when the store holds no raw point
ReadWatermarkEpochDefault ==
    /\ run.pc = "watermark"
    /\ \/ LET last_times == get_last_import_times(raw_pts)
              w == IF last_times.raw = None THEN Some(TS(0, 0)) ELSE last_times.raw
          IN  /\ run' = [run EXCEPT !.since = w, !.pc = "delete_hourly"]
              /\ UNCHANGED <<store_vars, prev, nruns, agg_vars, hook, disp, px>>
       \/ Fail("store")

\* last_times = client.get_last_import_times(); since = last_times.get("raw")
ReadWatermark ==
    /\ run.pc = "watermark"
    /\ \/ LET last_times == get_last_import_times(raw_pts)
              w == last_times.raw
          IN  /\ run' = [run EXCEPT !.since = w,
                                    !.pc = IF w # None THEN "delete_hourly"
                                                       ELSE "load"]
              /\ UNCHANGED <<store_vars, prev, nruns, agg_vars, hook, disp, px>>
       \/ Fail("store")

\* a range delete that starts at the watermark itself
DeleteHourlyFromWatermark ==
    /\ run.pc = "delete_hourly"
    /\ \/ LET cutoff_hour == run.since[1]
          IN  /\ hourly_pts' = delete_data_after(hourly_pts, cutoff_hour)
              /\ run' = [run EXCEPT !.pc = "delete_daily",
                                    !.ops = Log(run, "delete_hourly",
                                                Instant(cutoff_hour))]
              /\ UNCHANGED <<raw_pts, daily_pts, workout_pts, prev, nruns, agg_vars, hook, disp, px>>
       \/ Fail("store")

DeleteHourly ==
    /\ run.pc = "delete_hourly"
    /\ \/ LET cutoff_hour == truncate_to_hour(run.since[1])
          IN  /\ hourly_pts' = delete_data_after(hourly_pts, cutoff_hour)
              /\ run' = [run EXCEPT !.pc = "delete_daily",
                                    !.ops = Log(run, "delete_hourly",
                                                Instant(cutoff_hour))]
              /\ UNCHANGED <<raw_pts, daily_pts, workout_pts, prev, nruns, agg_vars, hook, disp, px>>
       \/ Fail("store")

\* a reconciliation that forgets the daily measurement
DeleteDailySkipped ==
    /\ run.pc = "delete_daily"
    /\ \/ /\ run' = [run EXCEPT !.pc = "load"]
          /\ UNCHANGED <<store_vars, prev, nruns, agg_vars, hook, disp, px>>
       \/ Fail("store")

DeleteDaily ==
    /\ run.pc = "delete_daily"
    /\ \/ LET cutoff_day == truncate_to_day(run.since[1])
          IN  /\ daily_pts' = delete_data_after(daily_pts, cutoff_day)
              /\ run' = [run EXCEPT !.pc = "load",
                                    !.ops = Log(run, "delete_daily",
                                                Instant(cutoff_day))]
              /\ UNCHANGED <<raw_pts, hourly_pts, workout_pts, prev, nruns, agg_vars, hook, disp, px>>
       \/ Fail("store")

\* parser = HealthDataParser(file_path, since=since); parser.get_summary()
Load ==
    /\ run.pc = "load"
    /\ \/ LET data == Docs[run.doc]
              summary == get_summary(data)
          IN  /\ run' = [run EXCEPT
                    !.total = summary.total_metric_samples,
                    !.total_workouts = summary.total_workouts,
                    !.samples = get_metrics(data, run.since),
                    !.workouts = get_workouts(data, run.since),
                    !.pc = IF ProcessingMetrics(run) THEN "metrics" ELSE "hourly"]
              /\ UNCHANGED <<store_vars, prev, nruns, agg_vars, hook, disp, px>>
       \/ Fail("file")

\* a loop body that aggregates only the samples it does not write raw
FeedUnlessRaw(r, sample) ==
    IF Aggregating(r) /\ ~WritingRaw(r)
    THEN [r EXCEPT !.aggregator = add_sample(@, sample),
                   !.fed = Append(@, sample)]
    ELSE r

\* "if write_hourly or write_daily: aggregator.add_sample(sample)"
Feed(r, sample) ==
    IF Aggregating(r)
    THEN [r EXCEPT !.aggregator = add_sample(@, sample),
                   !.fed = Append(@, sample)]
    ELSE r

\* one iteration of "for sample in parser.get_metrics()"
ProcessSample ==
    /\ run.pc = "metrics"
    /\ run.idx < Len(run.samples)
    /\ LET sample == run.samples[run.idx + 1]
           r1 == Feed(run, sample)
       IN  IF WritingRaw(run)
           THEN \/ /\ raw_pts' = write_metric(raw_pts, sample)
                   /\ run' = [r1 EXCEPT !.idx = @ + 1,
                                        !.rawed = Append(@, sample),
                                        !.ops = Log(r1, "write_raw", 1)]
                   /\ UNCHANGED <<hourly_pts, daily_pts, workout_pts, prev,
                                  nruns, agg_vars, hook, disp, px>>
                \/ /\ run' = [r1 EXCEPT !.pc = "failed", !.err = "store"]
                   /\ UNCHANGED <<store_vars, prev, nruns, agg_vars, hook, disp, px>>
           ELSE /\ run' = [r1 EXCEPT !.idx = @ + 1]
                /\ UNCHANGED <<store_vars, prev, nruns, agg_vars, hook, disp, px>>

\* the generator ends, and after the loop stats["raw_metrics"] and
\* stats["skipped_metrics"] are set; or the generator raises, and the
\* exception leaves ingest_file
EndMetrics ==
    /\ run.pc = "metrics"
    /\ run.idx = Len(run.samples)
    /\ IF MetricsRaise(Docs[run.doc])
       THEN Fail("parse")
       ELSE /\ run' = [run EXCEPT !.stats.raw_metrics = run.idx,
                                  !.stats.skipped_metrics = run.total - run.idx,
                                  !.pc = "hourly"]
            /\ UNCHANGED <<store_vars, prev, nruns, agg_vars, hook, disp, px>>

RECURSIVE LogFlushes(_, _, _, _)
LogFlushes(ops, op, flushes, k) ==
    IF k = 0 \/ flushes = <<>> THEN ops
    ELSE LogFlushes(Append(ops, [op |-> op, arg |-> Len(Head(flushes))]),
                    op, Tail(flushes), k - 1)

\* count = client.write_aggregated_batch(iter(hourly_list), "health_metrics_hourly")
WriteHourly ==
    /\ run.pc = "hourly"
    /\ IF WritingHourly(run)
       THEN LET hourly_list == get_hourly_aggregates(run.aggregator)
                fl == Flushes(hourly_list)
            IN  \/ /\ hourly_pts' = ApplyFlushes(hourly_pts, fl, Len(fl))
                   /\ run' = [run EXCEPT
                        !.stats.hourly_aggregates = Len(hourly_list),
                        !.ops = LogFlushes(@, "write_hourly", fl, Len(fl)),
                        !.pc = "daily"]
                   /\ UNCHANGED <<raw_pts, daily_pts, workout_pts, prev, nruns,
                                  agg_vars, hook, disp, px>>
                \/ \E k \in 0..(Len(fl) - 1) :
                   /\ hourly_pts' = ApplyFlushes(hourly_pts, fl, k)
                   /\ run' = [run EXCEPT
                        !.ops = LogFlushes(@, "write_hourly", fl, k),
                        !.pc = "failed", !.err = "store"]
                   /\ UNCHANGED <<raw_pts, daily_pts, workout_pts, prev, nruns,
                                  agg_vars, hook, disp, px>>
       ELSE /\ run' = [run EXCEPT !.pc = "daily"]
            /\ UNCHANGED <<store_vars, prev, nruns, agg_vars, hook, disp, px>>

\* count = client.write_aggregated_batch(iter(daily_list), "health_metrics_daily")
WriteDaily ==
    /\ run.pc = "daily"
    /\ IF WritingDaily(run)
       THEN LET daily_list == get_daily_aggregates(run.aggregator)
                fl == Flushes(daily_list)
            IN  \/ /\ daily_pts' = ApplyFlushes(daily_pts, fl, Len(fl))
                   /\ run' = [run EXCEPT
                        !.stats.daily_aggregates = Len(daily_list),
                        !.ops = LogFlushes(@, "write_daily", fl, Len(fl)),
                        !.pc = "workouts"]
                   /\ UNCHANGED <<raw_pts, hourly_pts, workout_pts, prev, nruns,
                                  agg_vars, hook, disp, px>>
                \/ \E k \in 0..(Len(fl) - 1) :
                   /\ daily_pts' = ApplyFlushes(daily_pts, fl, k)
                   /\ run' = [run EXCEPT
                        !.ops = LogFlushes(@, "write_daily", fl, k),
                        !.pc = "failed", !.err = "store"]
                   /\ UNCHANGED <<raw_pts, hourly_pts, workout_pts, prev, nruns,
                                  agg_vars, hook, disp, px>>
       ELSE /\ run' = [run EXCEPT !.pc = "workouts"]
            /\ UNCHANGED <<store_vars, prev, nruns, agg_vars, hook, disp, px>>

\* "for workout in parser.get_workouts(): client.write_workout(workout)",
\* then the run returns
Workouts ==
    /\ run.pc = "workouts"
    /\ LET ws == run.workouts
           n == IF WritingWorkouts(run) THEN Len(ws) ELSE 0
       IN  \/ /\ workout_pts' = WriteWorkouts(workout_pts, ws, n)
              /\ run' = [run EXCEPT
                    !.ops = @ \o [k \in 1..n |-> [op |-> "write_workout",
                                                  arg |-> 1]],
                    !.stats.workouts = Len(ws),
                    !.stats.skipped_workouts = run.total_workouts - Len(ws),
                    !.pc = "done"]
              /\ UNCHANGED <<raw_pts, hourly_pts, daily_pts, prev, nruns, agg_vars, hook, disp, px>>
           \/ \E k \in 0..(n - 1) :
              /\ workout_pts' = WriteWorkouts(workout_pts, ws, k)
              /\ run' = [run EXCEPT
                    !.ops = @ \o [j \in 1..k |-> [op |-> "write_workout",
                                                  arg |-> 1]],
                    !.pc = "failed", !.err = "store"]
              /\ UNCHANGED <<raw_pts, hourly_pts, daily_pts, prev, nruns, agg_vars, hook, disp, px>>

----------------------------------------------------------------------------
(* webhook.py: WebhookHandler.do_POST and the run_import threads it starts *)

\* the payloads the Health Auto Export app posts
HookPayloads == {1, 2}

NoFile == 0

HookInit ==
    [clock |-> 0,
     files |-> [name \in 0..(MaxClock + 1) |-> NoFile],
     threads |-> <<>>,
     responses |-> <<>>]

\* a request: its path, whether the Authorization header passes, whether it
\* has a body, whether the body is JSON and has a "data" field, the payload
Request(path, authorized, has_body, is_json, has_data, payload) ==
    [path |-> path, authorized |-> authorized, has_body |-> has_body,
     is_json |-> is_json, has_data |-> has_data, payload |-> payload]

Requests ==
    {Request("/webhook", TRUE, TRUE, TRUE, TRUE, d) : d \in HookPayloads}
    \cup {Request("/other", TRUE, TRUE, TRUE, TRUE, 1),
          Request("/webhook", FALSE, TRUE, TRUE, TRUE, 1),
          Request("/webhook", TRUE, FALSE, TRUE, TRUE, 1),
          Request("/webhook", TRUE, TRUE, FALSE, TRUE, 1),
          Request("/webhook", TRUE, TRUE, TRUE, FALSE, 1)}

\* the status do_POST answers with, before it touches the disk
StatusOf(req) ==
    IF req.path # "/webhook" THEN 404
    ELSE IF ~req.authorized THEN 401
    ELSE IF ~req.has_body THEN 400
    ELSE IF ~req.is_json THEN 400
    ELSE IF ~req.has_data THEN 400
    ELSE 202

\* HealthAutoExport-webhook-<%Y%m%d-%H%M%S>.json: the name is the second
FileName(clock) == clock

\* the locals of one run_import(file_path, True)
NewThread(file_path) ==
    [pc |-> "connect", file |-> file_path, doc |-> NoFile, posted |-> NoFile,
     since |-> None, samples |-> <<>>, workouts |-> <<>>, idx |-> 0,
     aggregator |-> EmptyAggregator, ops |-> <<>>]

Respond(h, code) == [h EXCEPT !.responses = Append(@, code)]

\* do_POST: reject, or save the payload, answer 202 and start the thread
do_POST(req) ==
    /\ Len(hook.responses) < MaxPosts
    /\ LET code == StatusOf(req)
           name == FileName(hook.clock)
       IN  IF code # 202
           THEN hook' = Respond(hook, code)
           ELSE \/ hook' = [Respond(hook, 202) EXCEPT
                              !.files[name] = req.payload,
                              !.threads = Append(@, [NewThread(name) EXCEPT
                                                       !.posted = req.payload])]
                \/ hook' = Respond(hook, 500)
    /\ UNCHANGED <<store_vars, run, prev, nruns, agg_vars, disp, px>>

\* a second passes
ClockTick ==
    /\ hook.clock < MaxClock
    /\ hook' = [hook EXCEPT !.clock = @ + 1]
    /\ UNCHANGED <<store_vars, run, prev, nruns, agg_vars, disp, px>>

Threads == DOMAIN hook.threads

SetThread(i, th) == [hook EXCEPT !.threads[i] = th]

HookAt(i, pc) == i \in Threads /\ hook.threads[i].pc = pc

\* "except Exception as e: ... return False", or health_check() is False
HookFail(i) ==
    /\ i \in Threads
    /\ hook.threads[i].pc \in {"connect", "watermark", "delete_hourly",
                               "delete_daily", "load", "metrics", "hourly",
                               "daily", "workouts"}
    /\ hook' = SetThread(i, [hook.threads[i] EXCEPT !.pc = "failed"])
    /\ UNCHANGED <<store_vars, run, prev, nruns, agg_vars, disp, px>>

\* with HealthInfluxClient(config.influxdb) as client; client.health_check()
HookConnect(i) ==
    /\ HookAt(i, "connect")
    /\ hook' = SetThread(i, [hook.threads[i] EXCEPT !.pc = "watermark"])
    /\ UNCHANGED <<store_vars, run, prev, nruns, agg_vars, disp, px>>

\* last_times = client.get_last_import_times(); last_times.get("raw")
HookReadWatermark(i) ==
    /\ HookAt(i, "watermark")
    /\ LET w == get_last_import_times(raw_pts).raw
       IN  hook' = SetThread(i, [hook.threads[i] EXCEPT
                        !.since = w,
                        !.pc = IF w # None THEN "delete_hourly" ELSE "load"])
    /\ UNCHANGED <<store_vars, run, prev, nruns, agg_vars, disp, px>>

HookDeleteHourly(i) ==
    /\ HookAt(i, "delete_hourly")
    /\ LET th == hook.threads[i]
           cutoff_hour == truncate_to_hour(th.since[1])
       IN  /\ hourly_pts' = delete_data_after(hourly_pts, cutoff_hour)
           /\ hook' = SetThread(i, [th EXCEPT
                        !.pc = "delete_daily",
                        !.ops = Log(th, "delete_hourly", Instant(cutoff_hour))])
    /\ UNCHANGED <<raw_pts, daily_pts, workout_pts, run, prev, nruns, agg_vars, disp, px>>

HookDeleteDaily(i) ==
    /\ HookAt(i, "delete_daily")
    /\ LET th == hook.threads[i]
           cutoff_day == truncate_to_day(th.since[1])
       IN  /\ daily_pts' = delete_data_after(daily_pts, cutoff_day)
           /\ hook' = SetThread(i, [th EXCEPT
                        !.pc = "load",
                        !.ops = Log(th, "delete_daily", Instant(cutoff_day))])
    /\ UNCHANGED <<raw_pts, hourly_pts, workout_pts, run, prev, nruns, agg_vars, disp, px>>

\* parser = HealthDataParser(file_path, since=since_timestamp);
\* parser.get_summary() reads the file as it is now
HookLoad(i) ==
    /\ HookAt(i, "load")
    /\ LET th == hook.threads[i]
           doc == hook.files[th.file]
       IN  hook' = SetThread(i, [th EXCEPT
                        !.doc = doc,
                        !.samples = get_metrics(Docs[doc], th.since),
                        !.workouts = get_workouts(Docs[doc], th.since),
                        !.pc = "metrics"])
    /\ UNCHANGED <<store_vars, run, prev, nruns, agg_vars, disp, px>>

\* aggregator.add_sample(sample); client.write_metric(sample)
HookSample(i) ==
    /\ HookAt(i, "metrics")
    /\ LET th == hook.threads[i]
       IN  IF th.idx < Len(th.samples)
           THEN LET sample == th.samples[th.idx + 1]
                IN  /\ raw_pts' = write_metric(raw_pts, sample)
                    /\ hook' = SetThread(i, [th EXCEPT
                                 !.aggregator = add_sample(@, sample),
                                 !.idx = @ + 1,
                                 !.ops = Log(th, "write_raw", 1)])
           ELSE /\ raw_pts' = raw_pts
                /\ hook' = SetThread(i, [th EXCEPT
                                 !.pc = IF MetricsRaise(Docs[th.doc])
                                        THEN "failed" ELSE "hourly"])
    /\ UNCHANGED <<hourly_pts, daily_pts, workout_pts, run, prev, nruns, agg_vars, disp, px>>

HookWriteHourly(i) ==
    /\ HookAt(i, "hourly")
    /\ LET th == hook.threads[i]
           fl == Flushes(get_hourly_aggregates(th.aggregator))
       IN  /\ hourly_pts' = ApplyFlushes(hourly_pts, fl, Len(fl))
           /\ hook' = SetThread(i, [th EXCEPT
                        !.ops = LogFlushes(@, "write_hourly", fl, Len(fl)),
                        !.pc = "daily"])
    /\ UNCHANGED <<raw_pts, daily_pts, workout_pts, run, prev, nruns, agg_vars, disp, px>>

HookWriteDaily(i) ==
    /\ HookAt(i, "daily")
    /\ LET th == hook.threads[i]
           fl == Flushes(get_daily_aggregates(th.aggregator))
       IN  /\ daily_pts' = ApplyFlushes(daily_pts, fl, Len(fl))
           /\ hook' = SetThread(i, [th EXCEPT
                        !.ops = LogFlushes(@, "write_daily", fl, Len(fl)),
                        !.pc = "workouts"])
    /\ UNCHANGED <<raw_pts, hourly_pts, workout_pts, run, prev, nruns, agg_vars, disp, px>>

\* the workouts loop, then "return True"
HookWorkouts(i) ==
    /\ HookAt(i, "workouts")
    /\ LET th == hook.threads[i]
       IN  /\ workout_pts' = WriteWorkouts(workout_pts, th.workouts,
                                           Len(th.workouts))
           /\ hook' = SetThread(i, [th EXCEPT !.pc = "done"])
    /\ UNCHANGED <<raw_pts, hourly_pts, daily_pts, run, prev, nruns, agg_vars, disp, px>>

----------------------------------------------------------------------------
(* influx_client.py: write_metrics_batch and write_aggregated_batch, one     *)
(* loop iteration at a time                                                  *)

\* the items a call is given
BatchSamples ==
    {HealthMetricSample("m", T1005, 5, "u", "s"),
     HealthMetricSample("m", T1050, 7, "u", "s")}

BatchAggregates ==
    {AggregatedMetric("m", TS(At(0, 10, 0), 0), "u", 1, 5, FDiv(5, 1), 5, 5),
     AggregatedMetric("m", TS(At(0, 11, 0), 0), "u", 1, 3, FDiv(3, 1), 3, 3)}

\* the calls: the function and the measurement it writes
DispCalls ==
    {[fn |-> "write_metrics_batch", measurement |-> "health_metrics"],
     [fn |-> "write_aggregated_batch", measurement |-> "health_metrics_hourly"],
     [fn |-> "write_aggregated_batch", measurement |-> "health_metrics_daily"]}

ItemsOf(call) ==
    IF call.fn = "write_metrics_batch" THEN BatchSamples ELSE BatchAggregates

\* the sequences of at most n items
SeqsUpTo(S, n) == UNION {[1..k -> S] : k \in 0..n}

DispIdle ==
    [pc |-> "idle", fn |-> "write_metrics_batch", measurement |-> "health_metrics",
     callback |-> FALSE, input |-> <<>>, rest |-> <<>>,
     count |-> 0, points |-> <<>>,
     written |-> <<>>, calls |-> <<>>, result |-> 0]

\* the Point built from one item
ToPoint(fn, item) ==
    IF fn = "write_metrics_batch" THEN RawPoint(item) ELSE AggPoint(item)

RECURSIVE WriteAllRaw(_, _)
WriteAllRaw(points, batch) ==
    IF batch = <<>> THEN points
    ELSE WriteAllRaw(UpsertRaw(points, Head(batch)), Tail(batch))

\* a test that lets the buffer grow past the capacity
FlushDueLate(points) == Len(points) > BatchCap

\* "if len(points) >= 5000"
FlushDue(points) == Len(points) >= BatchCap

\* a callback given the size of the batch
CallbackArgBatchSize(count, points) == Len(points)

\* progress_callback(count)
CallbackArg(count, points) == count

\* self._write_api.write(bucket=..., record=points), then the callback
Flush(d, count, points) ==
    /\ raw_pts' = IF d.measurement = "health_metrics"
                  THEN WriteAllRaw(raw_pts, points) ELSE raw_pts
    /\ hourly_pts' = IF d.measurement = "health_metrics_hourly"
                     THEN WriteAll(hourly_pts, points) ELSE hourly_pts
    /\ daily_pts' = IF d.measurement = "health_metrics_daily"
                    THEN WriteAll(daily_pts, points) ELSE daily_pts
    /\ disp' = [d EXCEPT
            !.count = count,
            !.points = <<>>,
            !.written = Append(@, points),
            !.calls = IF d.callback THEN Append(@, CallbackArg(count, points))
                                    ELSE @]

\* the write raises and the exception leaves the function
FlushRaises(d) ==
    /\ disp' = [d EXCEPT !.pc = "raised"]
    /\ UNCHANGED <<raw_pts, hourly_pts, daily_pts, px>>

\* count = 0; points = []
DispStart(call, items, callback) ==
    /\ disp.pc = "idle"
    /\ disp' = [DispIdle EXCEPT !.pc = "loop", !.fn = call.fn,
                                !.measurement = call.measurement,
                                !.callback = callback,
                                !.input = items, !.rest = items]
    /\ UNCHANGED <<ingest_vars, agg_vars, hook, px>>

\* one iteration of "for sample in samples" / "for agg in aggregates"
DispItem ==
    /\ disp.pc = "loop"
    /\ disp.rest # <<>>
    /\ LET points == Append(disp.points, ToPoint(disp.fn, Head(disp.rest)))
           count == disp.count + 1
           d == [disp EXCEPT !.rest = Tail(@)]
       IN  IF FlushDue(points)
           THEN Flush(d, count, points) \/ FlushRaises(d)
           ELSE /\ disp' = [d EXCEPT !.count = count, !.points = points]
                /\ UNCHANGED <<raw_pts, hourly_pts, daily_pts, px>>
    /\ UNCHANGED <<workout_pts, run, prev, nruns, agg_vars, hook, px>>

\* after the loop: "if points:" the remainder is written; return count
DispReturn ==
    /\ disp.pc = "loop"
    /\ disp.rest = <<>>
    /\ LET d == [disp EXCEPT !.pc = "returned", !.result = disp.count]
       IN  IF disp.points # <<>>
           THEN Flush(d, disp.count, disp.points) \/ FlushRaises(disp)
           ELSE /\ disp' = d
                /\ UNCHANGED <<raw_pts, hourly_pts, daily_pts, px>>
    /\ UNCHANGED <<workout_pts, run, prev, nruns, agg_vars, hook, px>>

----------------------------------------------------------------------------
(* parser.py: calls of parse_timestamp and of the loop body of parse_metrics *)

\* timestamp fields: every text with two times, one of them with an offset
PxDates ==
    {EmptyStr, NotADate, NotAString}
    \cup {DateText(text, t, tail) :
             text \in {"ts", "short"}, t \in {T1005, TS(At(0, 11, 50), 60)},
             tail \in {"offset", "", "junk"}}

\* data points: date and start of every kind, qty and value null or a number
PxPoints ==
    {DataPoint(date, start, qty, value) :
        date \in PxDates, start \in PxDates,
        qty \in {None, Some(Num(0)), Some(Num(5))},
        value \in {None, Some(Num(7))}}

PxIdle ==
    [pc |-> "idle", fn |-> "parse_timestamp", date_str |-> EmptyStr,
     sample |-> DataPoint(EmptyStr, EmptyStr, None, None), out |-> None]

other_vars == <<ingest_vars, agg_vars, hook, disp>>

PxCallTimestamp(date_str) ==
    /\ px.pc = "idle"
    /\ px' = [px EXCEPT !.pc = "called", !.fn = "parse_timestamp",
                        !.date_str = date_str]
    /\ UNCHANGED other_vars

PxCallPoint(sample) ==
    /\ px.pc = "idle"
    /\ px' = [px EXCEPT !.pc = "called", !.fn = "parse_metrics",
                        !.sample = sample]
    /\ UNCHANGED other_vars

\* the call returns, yields, continues or raises
PxReturn ==
    /\ px.pc = "called"
    /\ px' = [px EXCEPT
            !.pc = "returned",
            !.out = IF px.fn = "parse_timestamp"
                    THEN parse_timestamp(px.date_str)
                    ELSE ParsePoint("m", "u", px.sample)]
    /\ UNCHANGED other_vars

----------------------------------------------------------------------------
(* The aggregator on its own: add_sample and clear in any order *)

AggSamples ==
    {HealthMetricSample("m", T1005, 5, "u", "s"),
     HealthMetricSample("m", T1050, 7, "u", "s"),
     HealthMetricSample("m", T1110, 3, "u", "s"),
     HealthMetricSample("m", T1005, Pow2(MantBits), "u", "s"),
     HealthMetricSample("m", T1110, 1, "u", "s"),
     HealthMetricSample("m", TS(At(0, 10, 5), 60), 1, "u", "s"),
     HealthMetricSample("m", TS(At(0, 10, 40), 30), 6, "u", "s"),
     HealthMetricSample("m", TS(At(0, 9, 20), 0), 2, "u", "s"),
     HealthMetricSample("n", T1005, 5, "u", "s"),
     HealthMetricSample("m", TS(At(1, 0, 20), 0), 4, "u", "s")}

NothingRead == [hourly |-> <<>>, daily |-> <<>>, samples |-> <<>>]

AggAdd(sample) ==
    /\ Len(added) < MaxSamples
    /\ aggr' = add_sample(aggr, sample)
    /\ added' = Append(added, sample)
    /\ emitted' = NothingRead
    /\ UNCHANGED <<ingest_vars, hook, disp, px>>

\* StreamingAggregator.clear
AggClear ==
    /\ added # <<>>
    /\ aggr' = EmptyAggregator
    /\ added' = <<>>
    /\ emitted' = NothingRead
    /\ UNCHANGED <<ingest_vars, hook, disp, px>>

\* list(aggr.get_hourly_aggregates()), list(aggr.get_daily_aggregates()):
\* the buckets are read and stay as they are
AggGet ==
    /\ emitted' = [hourly |-> get_hourly_aggregates(aggr),
                   daily |-> get_daily_aggregates(aggr),
                   samples |-> added]
    /\ UNCHANGED <<aggr, added, ingest_vars, hook, disp, px>>

----------------------------------------------------------------------------
(* Specifications *)

Init ==
    /\ aggr = EmptyAggregator
    /\ added = <<>>
    /\ emitted = NothingRead
    /\ raw_pts = {}
    /\ hourly_pts = {}
    /\ daily_pts = {}
    /\ workout_pts = {}
    /\ run = IdleRun
    /\ prev = NoPrev
    /\ nruns = 0
    /\ hook = HookInit
    /\ disp = DispIdle
    /\ px = PxIdle

\* runs one after the other, each from the command line or the webhook
Next ==
    \/ \E o \in RunOptions, d \in DocIds : StartRun(o, d)
    \/ Connect
    \/ ReadWatermark
    \/ DeleteHourly
    \/ DeleteDaily
    \/ Load
    \/ ProcessSample
    \/ EndMetrics
    \/ WriteHourly
    \/ WriteDaily
    \/ Workouts

Spec == Init /\ [][Next]_vars

NextAgg ==
    \/ \E sample \in AggSamples : AggAdd(sample)
    \/ AggClear
    \/ AggGet

SpecAgg == Init /\ [][NextAgg]_vars

\* the webhook receiver: requests arrive while earlier imports still run
NextHook ==
    \/ \E req \in Requests : do_POST(req)
    \/ ClockTick
    \/ \E i \in 1..MaxPosts :
          \/ HookConnect(i)
          \/ HookReadWatermark(i)
          \/ HookDeleteHourly(i)
          \/ HookDeleteDaily(i)
          \/ HookLoad(i)
          \/ HookSample(i)
          \/ HookWriteHourly(i)
          \/ HookWriteDaily(i)
          \/ HookWorkouts(i)
          \/ HookFail(i)

\* runs with granularities switched off and with dry_run
NextFlags ==
    \/ \E o \in FlagOptions, d \in AnyDocIds : StartRun(o, d)
    \/ DryRunSummary
    \/ Connect
    \/ ReadWatermark
    \/ DeleteHourly
    \/ DeleteDaily
    \/ Load
    \/ ProcessSample
    \/ EndMetrics
    \/ WriteHourly
    \/ WriteDaily
    \/ Workouts

SpecFlags == Init /\ [][NextFlags]_vars

SpecHook == Init /\ [][NextHook]_vars

\* a call of a batch writer on an empty store
NextBatch ==
    \/ \E call \in DispCalls, callback \in BOOLEAN :
          \E items \in SeqsUpTo(ItemsOf(call), MaxItems) :
             DispStart(call, items, callback)
    \/ DispItem
    \/ DispReturn

SpecBatch == Init /\ [][NextBatch]_vars

\* a call of parse_timestamp or of the loop body of parse_metrics
NextParse ==
    \/ \E date_str \in PxDates : PxCallTimestamp(date_str)
    \/ \E sample \in PxPoints : PxCallPoint(sample)
    \/ PxReturn

SpecParse == Init /\ [][NextParse]_vars

----------------------------------------------------------------------------
(* Rollup of hourly aggregates against the daily aggregates of the raw samples *)

RollupOfStreaming == aggregate_from_hourly_to_daily(get_hourly_aggregates(aggr))
RollupOfBatch == aggregate_from_hourly_to_daily(aggregate_to_hourly(added))
DailyStreaming == get_daily_aggregates(aggr)
DailyBatch == aggregate_to_daily(added)

\* all samples carry the same UTC offset
SameOffset(samples) ==
    \A i, j \in 1..Len(samples) : samples[i].timestamp.off = samples[j].timestamp.off

RECURSIVE ExactTotal(_)
ExactTotal(samples) ==
    IF samples = <<>> THEN 0 ELSE Head(samples).value + ExactTotal(Tail(samples))

\* no addition of these values rounds: every partial sum is a float
SumsExact(samples) == ExactTotal(samples) <= Pow2(MantBits)

\* C1 as claimed: for every set of samples the rollup of the hourly
\* aggregates has the same keys and, per key, exactly the same count, sum,
\* min and max as the daily aggregates computed from the raw samples.
C1_RollupExact ==
    /\ StatsOf(RollupOfStreaming) = StatsOf(DailyStreaming)
    /\ StatsOf(RollupOfBatch) = StatsOf(DailyBatch)

\* The part of the equivalence that does hold: for samples that all carry
\* the same UTC offset the rollup has the same keys, counts, minima and
\* maxima as the daily aggregates of the raw samples, and the same sums
\* whenever no float addition rounds.
RollupSameOffsetUpToRounding ==
    SameOffset(added) =>
        /\ CountMinMaxOf(RollupOfStreaming) = CountMinMaxOf(DailyStreaming)
        /\ CountMinMaxOf(RollupOfBatch) = CountMinMaxOf(DailyBatch)
        /\ SumsExact(added) =>
              /\ StatsOf(RollupOfStreaming) = StatsOf(DailyStreaming)
              /\ StatsOf(RollupOfBatch) = StatsOf(DailyBatch)

----------------------------------------------------------------------------
(* The store against the raw samples it holds *)

RECURSIVE SetSum(_)
SetSum(ps) ==
    IF ps = {} THEN 0
    ELSE LET p == CHOOSE q \in ps : TRUE IN p.value + SetSum(ps \ {p})

\* the stored raw points of a metric and unit in [lo, lo + width)
RawIn(m, u, lo, width) ==
    {p \in raw_pts : p.metric = m /\ p.unit = u /\ lo <= p.time /\ p.time < lo + width}

Summarizes(a, width) ==
    LET R == RawIn(a.metric, a.unit, a.time, width)
    IN  /\ R # {}
        /\ a.count = Cardinality(R)
        /\ a.sum = SetSum(R)
        /\ \A p \in R : a.min <= p.value /\ p.value <= a.max
        /\ \E p \in R : a.min = p.value
        /\ \E p \in R : a.max = p.value

Covered(p, aggs, width) ==
    \E a \in aggs : /\ a.metric = p.metric /\ a.unit = p.unit
                    /\ a.time <= p.time /\ p.time < a.time + width

ViewsConsistent ==
    /\ \A a \in hourly_pts : Summarizes(a, MinutesPerHour)
    /\ \A a \in daily_pts : Summarizes(a, MinutesPerDay)
    /\ \A p \in raw_pts : Covered(p, hourly_pts, MinutesPerHour)
    /\ \A p \in raw_pts : Covered(p, daily_pts, MinutesPerDay)

\* every run so far has completed without error
AllRunsCompleted == run.pc = "done" /\ prev.all_ok

\* C2 as claimed: after any sequence of runs that each completed without
\* error, every stored hourly and daily point has the count, sum, min and max
\* of the stored raw samples of its bucket, and every bucket holding a stored
\* raw sample has a stored aggregate point.
C2_ViewsConsistent == AllRunsCompleted => ViewsConsistent

----------------------------------------------------------------------------
(* Repeated imports *)

SameStoreAsPrev ==
    /\ raw_pts = prev.raw
    /\ hourly_pts = prev.hourly
    /\ daily_pts = prev.daily

\* the run that just completed repeated the run before it
Repeated(incremental) ==
    /\ run.pc = "done"
    /\ prev.finished /\ prev.ok
    /\ run.doc = prev.doc
    /\ run.incremental = incremental /\ prev.incremental = incremental
    /\ run.since_arg = None /\ prev.since_arg = None
    /\ AllGranularities(run) /\ prev.defaults

\* C3 as claimed: a second incremental import of the same document leaves
\* the raw, hourly and daily contents of the store as the first left them.
C3_ReimportIdempotent == Repeated(TRUE) => SameStoreAsPrev

OnePointPerKey ==
    /\ \A p, q \in raw_pts : RawKey(p) = RawKey(q) => p = q
    /\ \A p, q \in hourly_pts : AggKey3(p) = AggKey3(q) => p = q
    /\ \A p, q \in daily_pts : AggKey3(p) = AggKey3(q) => p = q

\* C4: the store holds one point per key at all times, and a second full
\* ingest of the same document leaves the store as the first left it.
C4_FullReingestReplaces ==
    /\ OnePointPerKey
    /\ Repeated(FALSE) => SameStoreAsPrev

\* a full ingest of a document with samples has just been repeated
C4_Witness ==
    /\ Repeated(FALSE)
    /\ Len(run.rawed) >= 2
    /\ hourly_pts # {} /\ daily_pts # {}
    /\ run.stats.hourly_aggregates >= 1

----------------------------------------------------------------------------
(* The watermark *)

\* watermark w is later than watermark w0 (None: no raw point in the store)
Later(w, w0) == w # None /\ (w0 = None \/ Instant(w[1]) > Instant(w0[1]))

\* C5 as claimed: while a run has not written its hourly and daily
\* aggregates, or when it has failed, the watermark read from the store is
\* not later than it was when the run started.
C5_WatermarkAfterCommit ==
    run.pc \in {"load", "metrics", "hourly", "daily", "failed"}
        => ~Later(get_last_import_time(raw_pts), run.w0)

----------------------------------------------------------------------------
(* Reconciliation *)

OpsAt(op) == {i \in 1..Len(run.ops) : run.ops[i].op = op}
AggWrites == OpsAt("write_hourly") \cup OpsAt("write_daily")

\* the run read a watermark from the store and found one
FoundWatermark ==
    /\ run.incremental /\ run.since_arg = None
    /\ run.since # None
    /\ run.pc \notin {"idle", "connect", "watermark"}

\* the reconciliation of the run is behind it
Reconciled == run.pc \in {"load", "metrics", "hourly", "daily", "workouts", "done"}

HourOf(instant) == instant - (instant % MinutesPerHour)
DayOf(instant) == instant - (instant % MinutesPerDay)

\* C6: in an incremental run that found a watermark W, the range delete of
\* hourly points from hour_truncate(W) and the range delete of daily points
\* from day_truncate(W) are each issued at most once, and exactly once and
\* before every aggregate write once the run is past reconciliation.
C6_DeletesBeforeWrites ==
    FoundWatermark =>
        LET W == Instant(run.since[1]) IN
        /\ Cardinality(OpsAt("delete_hourly")) <= 1
        /\ Cardinality(OpsAt("delete_daily")) <= 1
        /\ \A i \in OpsAt("delete_hourly") : run.ops[i].arg = HourOf(W)
        /\ \A i \in OpsAt("delete_daily") : run.ops[i].arg = DayOf(W)
        /\ (Reconciled \/ AggWrites # {}) =>
              /\ Cardinality(OpsAt("delete_hourly")) = 1
              /\ Cardinality(OpsAt("delete_daily")) = 1
              /\ \A i \in OpsAt("delete_hourly") \cup OpsAt("delete_daily") :
                    \A j \in AggWrites : i < j

\* an incremental run with a watermark has written hourly and daily points
C6_Witness ==
    /\ FoundWatermark
    /\ run.pc = "done"
    /\ OpsAt("write_hourly") # {}
    /\ OpsAt("write_daily") # {}

\* the valid samples of the run's document, and those after an instant
ValidSamples == parse_metrics(Docs[run.doc])
ValidAfter(W) == SelectSeq(ValidSamples, LAMBDA smp : Instant(smp.timestamp) > W)
MetricsDone == run.pc \in {"hourly", "daily", "workouts", "done"}

NoWatermark ==
    /\ run.incremental /\ run.since_arg = None
    /\ run.w0 = None
    /\ run.pc \notin {"idle", "connect", "watermark"}

\* C9: an incremental run that finds no watermark runs as a full run: it
\* issues no range delete, drops no sample by its timestamp, and fails only
\* if the store or the file does.
C9_NoWatermarkFullRun ==
    NoWatermark =>
        /\ run.since = None
        /\ OpsAt("delete_hourly") = {} /\ OpsAt("delete_daily") = {}
        /\ run.pc = "failed" => run.err \in {"store", "file"}
        /\ run.pc = "metrics" => run.fed = SubSeq(ValidSamples, 1, run.idx)
        /\ MetricsDone =>
              /\ run.fed = ValidSamples
              /\ run.rawed = ValidSamples

C9_Witness ==
    /\ NoWatermark
    /\ run.pc = "done"
    /\ Len(run.rawed) >= 2
    /\ hourly_pts # {}

----------------------------------------------------------------------------
(* Order of the writes of a run *)

WritesInOrder ==
    /\ \A i \in OpsAt("write_raw") : \A j \in AggWrites : i < j
    /\ \A i \in OpsAt("write_hourly") : \A j \in OpsAt("write_daily") : i < j

\* the sizes of the store calls of one kind, in order
RECURSIVE SizesOf(_, _)
SizesOf(ops, op) ==
    IF ops = <<>> THEN <<>>
    ELSE (IF Head(ops).op = op THEN <<Head(ops).arg>> ELSE <<>>)
         \o SizesOf(Tail(ops), op)

RECURSIVE Chunks(_)
\* what a dispatcher of capacity BatchCap makes of n items
Chunks(n) ==
    IF n = 0 THEN <<>>
    ELSE IF n <= BatchCap THEN <<n>>
    ELSE <<BatchCap>> \o Chunks(n - BatchCap)

AggregatesBatched ==
    /\ run.pc \in {"daily", "workouts", "done"} =>
          SizesOf(run.ops, "write_hourly") = Chunks(Len(run.aggregator.hourly))
    /\ run.pc \in {"workouts", "done"} =>
          SizesOf(run.ops, "write_daily") = Chunks(Len(run.aggregator.daily))
    /\ \A i \in AggWrites : run.ops[i].arg >= 1 /\ run.ops[i].arg <= BatchCap

----------------------------------------------------------------------------
(* Runs started by the webhook *)

\* a run_import that has read the watermark and has not yet returned
InFlight(th) ==
    th.pc \in {"delete_hourly", "delete_daily", "load", "metrics", "hourly",
               "daily", "workouts"}

RunsInFlight == {i \in Threads : InFlight(hook.threads[i])}

\* C11 as claimed: whatever requests the webhook accepts, at no time are two
\* run_import executions both between their watermark read and their last
\* write.
C11_OneRunInFlight == Cardinality(RunsInFlight) <= 1

----------------------------------------------------------------------------
(* The aggregates the aggregator hands out *)

\* the quotient q is that of a divided by b
QuotientOf(q, a, b) == q.den # 0 /\ b # 0 /\ q.num * b = a * q.den

AvgConsistent(aggs) ==
    \A i \in 1..Len(aggs) :
        /\ aggs[i].count >= 1
        /\ QuotientOf(aggs[i].avg_value, aggs[i].sum_value, aggs[i].count)

BucketsCounted(buckets) == \A i \in 1..Len(buckets) : buckets[i].count >= 1

\* C12: every aggregate handed out by the streaming aggregator, the batch
\* functions and the rollup has count >= 1 and avg = sum / count, and every
\* bucket of a StreamingAggregator has count >= 1.
C12_AvgConsistency ==
    /\ AvgConsistent(get_hourly_aggregates(aggr))
    /\ AvgConsistent(get_daily_aggregates(aggr))
    /\ AvgConsistent(aggregate_to_hourly(added))
    /\ AvgConsistent(aggregate_to_daily(added))
    /\ AvgConsistent(RollupOfStreaming)
    /\ AvgConsistent(RollupOfBatch)
    /\ BucketsCounted(aggr.hourly)
    /\ BucketsCounted(aggr.daily)

\* three samples, two of them in one hour, rolled up into one day
C12_Witness ==
    /\ Len(added) = 3
    /\ Len(aggr.hourly) = 2
    /\ \E i \in 1..2 : aggr.hourly[i].count = 2
    /\ Len(RollupOfStreaming) = 1
    /\ RollupOfStreaming[1].count = 3

----------------------------------------------------------------------------
(* The buckets of a StreamingAggregator against the samples added *)

\* the added samples that fall in bucket b (daily: of the day, else of the hour)
MembersOf(b, daily) ==
    {i \in 1..Len(added) :
        KeyEq(b.metric, b.ts, b.unit, added[i].metric_name,
              IF daily THEN truncate_to_day(added[i].timestamp)
                       ELSE truncate_to_hour(added[i].timestamp),
              added[i].unit)}

MinMaxBound(b, daily) ==
    LET mem == MembersOf(b, daily)
    IN  /\ \A i \in mem : b.min <= added[i].value /\ added[i].value <= b.max
        /\ \E i \in mem : b.min = added[i].value
        /\ \E i \in mem : b.max = added[i].value
        /\ b.min <= b.max

\* C13: after any sequence of add_sample calls, in every hourly and daily
\* bucket min <= v <= max for the value v of every sample added to it, and
\* min and max are each the value of one of those samples.
C13_MinMaxBound ==
    /\ \A i \in 1..Len(aggr.hourly) : MinMaxBound(aggr.hourly[i], FALSE)
    /\ \A i \in 1..Len(aggr.daily) : MinMaxBound(aggr.daily[i], TRUE)

\* a daily bucket of three samples with three different values
C13_Witness ==
    \E i \in 1..Len(aggr.daily) :
        /\ aggr.daily[i].count = 3
        /\ Cardinality({added[k].value : k \in MembersOf(aggr.daily[i], TRUE)}) = 3
        /\ aggr.daily[i].min < aggr.daily[i].max

----------------------------------------------------------------------------
(* Bucket contents *)

\* the added samples of the key of aggregate a, in the order they were added
SamplesOf(a, daily) ==
    SelectSeq(added, LAMBDA smp :
        KeyEq(a.metric_name, a.timestamp, a.unit, smp.metric_name,
              IF daily THEN truncate_to_day(smp.timestamp)
                       ELSE truncate_to_hour(smp.timestamp),
              smp.unit))

ValuesOf(samples) == [i \in 1..Len(samples) |-> samples[i].value]

\* the aggregates are one per key of an added sample, each counting and
\* summing (float additions in the order added) the samples of its key
ContentsOf(aggs, daily) ==
    /\ \A i \in 1..Len(aggs) :
          LET mem == SamplesOf(aggs[i], daily)
          IN  /\ mem # <<>>
              /\ aggs[i].count = Len(mem)
              /\ aggs[i].sum_value = FSum(ValuesOf(mem))
    /\ \A i, j \in 1..Len(aggs) : AggKey(aggs[i]) = AggKey(aggs[j]) => i = j
    /\ \A k \in 1..Len(added) :
          \E i \in 1..Len(aggs) :
              KeyEq(aggs[i].metric_name, aggs[i].timestamp, aggs[i].unit,
                    added[k].metric_name,
                    IF daily THEN truncate_to_day(added[k].timestamp)
                             ELSE truncate_to_hour(added[k].timestamp),
                    added[k].unit)

ScenarioA ==
    <<HealthMetricSample("m", T1005, 5, "u", "s"),
      HealthMetricSample("m", T1050, 7, "u", "s"),
      HealthMetricSample("m", T1110, 3, "u", "s")>>

\* the aggregates as a set of (metric, unit, period start, count, sum, min, max)
Rows(aggs) ==
    {<<aggs[i].metric_name, aggs[i].unit, aggs[i].timestamp, aggs[i].count,
       aggs[i].sum_value, aggs[i].min_value, aggs[i].max_value>> :
     i \in 1..Len(aggs)}

\* C14: after any sequence of add_sample calls every hourly (daily) aggregate
\* has the count and the sum of the added samples of its metric, unit and
\* hour (day), there is one aggregate per key with a sample and none without;
\* the samples (10:05,5), (10:50,7), (11:10,3) give the hourly aggregates
\* 10:00 (2, 12, 5, 7) and 11:00 (1, 3, 3, 3) and the daily aggregate
\* 00:00 (3, 15, 3, 7).
C14_BucketContents ==
    /\ ContentsOf(get_hourly_aggregates(aggr), FALSE)
    /\ ContentsOf(get_daily_aggregates(aggr), TRUE)
    /\ added = ScenarioA =>
          /\ Rows(get_hourly_aggregates(aggr))
                = {<<"m", "u", TS(At(0, 10, 0), 0), 2, 12, 5, 7>>,
                   <<"m", "u", TS(At(0, 11, 0), 0), 1, 3, 3, 3>>}
          /\ Rows(get_daily_aggregates(aggr))
                = {<<"m", "u", TS(At(0, 0, 0), 0), 3, 15, 3, 7>>}

C14_Witness == added = ScenarioA /\ Len(aggr.hourly) = 2 /\ Len(aggr.daily) = 1

----------------------------------------------------------------------------
(* The statistics ingest_file returns *)

\* ingest_file has returned from a call without a since timestamp
ReturnedFull == run.pc = "done" /\ run.entry = "ingest_file" /\ run.since = None

\* C15 as claimed: for a non-incremental ingest_file, whatever write_raw,
\* write_hourly, write_daily and dry_run are, raw_metrics + skipped_metrics
\* of the returned statistics is the number of data point records of the
\* document.
C15_DropAccounting ==
    ReturnedFull =>
        run.stats.raw_metrics + run.stats.skipped_metrics
            = CountPoints(Docs[run.doc].metrics)

\* C16 as claimed: the raw_metrics count a run returns is the number of raw
\* points the run wrote: 0 when raw writing is off or dry_run is set, else the
\* number of write calls for raw points.
C16_RawWrittenCount ==
    (run.pc = "done" /\ run.entry = "ingest_file") =>
        /\ run.stats.raw_metrics = Cardinality(OpsAt("write_raw"))
        /\ (~run.write_raw \/ run.dry_run) => run.stats.raw_metrics = 0

----------------------------------------------------------------------------
(* Dry run *)

\* C20 as claimed: in a run with the dry-run flag set (granularities as by
\* default) no write and no range delete is issued and the store stays as it
\* was, and every valid sample of the document is extracted and folded into
\* the aggregator.
C20_DryRun ==
    (run.dry_run /\ AllGranularities(run) /\ run.pc # "idle") =>
        /\ run.ops = <<>>
        /\ SameStoreAsPrev
        /\ MetricsDone => run.fed = ValidSamples

----------------------------------------------------------------------------
(* Malformed records *)

\* a record with a timestamp that parses and a value that converts
WellFormed(sample) ==
    /\ sample.date.text = "ts" \/ (sample.date.text = "" /\ sample.start.text = "ts")
    /\ LET value == IF sample.qty # None THEN sample.qty ELSE sample.value
       IN  value # None /\ value[1].json = "number"

RECURSIVE WellFormedCount(_)
WellFormedCount(metrics) ==
    IF metrics = <<>> THEN 0
    ELSE Cardinality({i \in 1..Len(Head(metrics).data) :
                         WellFormed(Head(metrics).data[i])})
         + WellFormedCount(Tail(metrics))

\* C17 as claimed: whatever the timestamp and value fields of the records
\* hold (text that is no date, a timestamp that is no string, no value, a
\* value that converts to no number), a run of ingest_file over all samples
\* is not ended by an error of the extraction, and when its sample loop has
\* ended every well-formed record has been processed and the skipped count
\* is the number of the other records.
C17_MalformedNeverAborts ==
    (run.entry = "ingest_file" /\ run.since = None /\ ProcessingMetrics(run)) =>
        /\ run.err # "parse"
        /\ MetricsDone =>
              /\ run.idx = WellFormedCount(Docs[run.doc].metrics)
              /\ run.stats.skipped_metrics
                    = CountPoints(Docs[run.doc].metrics)
                      - WellFormedCount(Docs[run.doc].metrics)

----------------------------------------------------------------------------
(* The batch writers *)

RECURSIVE Concat(_)
Concat(batches) ==
    IF batches = <<>> THEN <<>> ELSE Head(batches) \o Concat(Tail(batches))

\* the points of the items of the input, in order
InputPoints == [i \in 1..Len(disp.input) |-> ToPoint(disp.fn, disp.input[i])]

\* the number of points of the first k batches
FlushedUpTo(k) == Len(Concat(SubSeq(disp.written, 1, k)))

\* C18: the batches a batch writer hands to the store are never empty and
\* never beyond the capacity, every batch but the last one of a call is
\* full, and when the call returns the batches hold as many points as the
\* input has items and the call returns that number.
C18_NoItemDropped ==
    /\ \A k \in 1..Len(disp.written) :
          /\ Len(disp.written[k]) >= 1
          /\ Len(disp.written[k]) <= BatchCap
          /\ (k < Len(disp.written) \/ disp.pc = "loop")
                => Len(disp.written[k]) = BatchCap
    /\ disp.pc = "loop" =>
          FlushedUpTo(Len(disp.written)) + Len(disp.points) + Len(disp.rest)
             = Len(disp.input)
    /\ disp.pc = "returned" =>
          /\ FlushedUpTo(Len(disp.written)) = Len(disp.input)
          /\ disp.result = Len(disp.input)

\* a call of more items than fit two batches has returned, its last batch
\* the remainder
C18_Witness ==
    /\ disp.pc = "returned"
    /\ Len(disp.input) > BatchCap
    /\ Len(disp.written) >= 2
    /\ Len(disp.written[Len(disp.written)]) < BatchCap

\* C19: the batches handed to the store, one after the other, are the
\* points of the input in its order (of the items consumed so far while the
\* loop runs), and a progress callback that is given has been called once
\* for each batch, with the number of items written up to that batch: the
\* numbers increase strictly and the last one of a returned call is the
\* number of items.
C19_OrderAndProgress ==
    /\ disp.pc \in {"loop", "returned"} =>
          Concat(disp.written) \o disp.points \o
              [i \in 1..Len(disp.rest) |-> ToPoint(disp.fn, disp.rest[i])]
            = InputPoints
    /\ disp.pc = "returned" => Concat(disp.written) = InputPoints
    /\ disp.callback =>
          /\ Len(disp.calls) = Len(disp.written)
          /\ \A k \in 1..Len(disp.calls) : disp.calls[k] = FlushedUpTo(k)
          /\ \A k \in 2..Len(disp.calls) : disp.calls[k - 1] < disp.calls[k]
          /\ (disp.pc = "returned" /\ disp.calls # <<>>) =>
                disp.calls[Len(disp.calls)] = Len(disp.input)
    /\ ~disp.callback => disp.calls = <<>>

\* a call with a callback and two different items in its input has returned
\* after more than one batch
C19_Witness ==
    /\ disp.pc = "returned"
    /\ disp.callback
    /\ Len(disp.calls) >= 2
    /\ \E i, j \in 1..Len(disp.input) : disp.input[i] # disp.input[j]

----------------------------------------------------------------------------
(* Granularities *)

\* the samples of the document the run keeps
KeptSamples == get_metrics(Docs[run.doc], run.since)

\* C21 as claimed: a run with raw, hourly or daily switched off leaves the
\* stored points of that granularity as it found them, also with
\* --incremental, and what reaches the raw writer and the aggregator does
\* not depend on the switches of the other granularities (runs without
\* --dry-run).
C21_IndependentGranularities ==
    (run.pc # "idle" /\ run.entry # "webhook" /\ ~run.dry_run) =>
        /\ ~run.write_raw => raw_pts = prev.raw
        /\ ~run.write_hourly => hourly_pts = prev.hourly
        /\ ~run.write_daily => daily_pts = prev.daily
        /\ (MetricsDone /\ WritingRaw(run)) => run.rawed = KeptSamples
        /\ (MetricsDone /\ ProcessingMetrics(run) /\ Aggregating(run)) =>
              run.fed = KeptSamples

----------------------------------------------------------------------------
(* Failure of the store *)

\* what the caller of a run gets: ingest_file returns stats when it reaches
\* its end, and an exception that leaves it carries no statistics (main does
\* not catch it; run_import logs its message and returns False)
Report(r) == IF r.pc = "done" THEN Some(r.stats) ELSE None

\* C22 as claimed: a run that fails on the store ends as failed, its report
\* gives the number of raw samples written so far, and the raw points it
\* wrote before the failure are still in the store.
C22_PartialProgressReport ==
    (run.pc = "failed" /\ run.err = "store") =>
        /\ Report(run) # None
        /\ Report(run)[1].raw_metrics = Len(run.rawed)
        /\ \A i \in 1..Len(run.rawed) : RawPoint(run.rawed[i]) \in raw_pts

----------------------------------------------------------------------------
(* Phases of a run *)

\* the document has not been loaded yet
BeforeLoaded == run.pc \in {"connect", "watermark", "delete_hourly",
                            "delete_daily", "load"}

\* C23 as claimed: a run issues no range delete and no write before it has
\* loaded the document, and a run that fails on the file or on the parsing
\* of the document leaves the store as it found it.
C23_NoMutationBeforeLoad ==
    /\ BeforeLoaded => (run.ops = <<>> /\ SameStoreAsPrev)
    /\ (run.pc = "failed" /\ run.err \in {"file", "parse"}) => SameStoreAsPrev

----------------------------------------------------------------------------
(* Extraction of one data point *)

\* the loop body of parse_metrics has run on a data point whose date and
\* start are text
PointParsed ==
    /\ px.pc = "returned" /\ px.fn = "parse_metrics"
    /\ px.sample.date.text # "not-a-string"
    /\ px.sample.start.text # "not-a-string"

\* C24 as claimed: the timestamp of the sample is that of date when date is
\* present and not empty and that of start otherwise, its value is qty when
\* qty is not null (0 is kept) and value otherwise, and the data point is
\* skipped exactly when neither date nor start gives a timestamp that
\* parses or neither qty nor value gives a value.
C24_FieldPreference ==
    PointParsed =>
        LET smp == px.sample
            chosen == IF smp.date.text # "" THEN smp.date ELSE smp.start
            val == IF smp.qty # None THEN smp.qty ELSE smp.value
            no_timestamp == /\ parse_timestamp(smp.date) = None
                            /\ parse_timestamp(smp.start) = None
            no_value == smp.qty = None /\ smp.value = None
        IN  /\ (px.out = <<>>) <=> (no_timestamp \/ no_value)
            /\ px.out # <<>> =>
                  /\ px.out[1].timestamp = parse_timestamp(chosen)[1]
                  /\ px.out[1].value = val[1].n

----------------------------------------------------------------------------
(* parse_timestamp *)

TimestampParsed ==
    /\ px.pc = "returned" /\ px.fn = "parse_timestamp"
    /\ px.date_str.text # "not-a-string"

\* C25 as claimed: parse_timestamp gives the time with its offset of text in
\* the format with an offset, else the time without offset of the first 19
\* characters; it gives nothing for the empty text and for every text whose
\* first 19 characters are not a 'YYYY-MM-DD HH:MM:SS', and text with such a
\* head and a tail that is no offset is taken as a time without offset.
C25_ParseTimestamp ==
    TimestampParsed =>
        LET d == px.date_str
        IN  /\ (d.text = "ts" /\ d.tail = "offset") => px.out = Some(d.t)
            /\ d.text = "" => px.out = None
            /\ d.text # "ts" => px.out = None
            /\ (d.text = "ts" /\ d.tail # "offset")
                  => px.out = Some(NaiveTS(d.t.wall))

\* C25, amended: parse_timestamp gives the time with its offset of every
\* text that strptime matches to the format with an offset (fields without
\* leading zero included), else the time without offset when the first 19
\* characters match the format without offset, and nothing for the empty
\* text and any other text; a head of 19 characters with a tail that is no
\* offset is taken as a time without offset.
C25_ParseTimestampFallback ==
    TimestampParsed =>
        LET d == px.date_str
            dated == d.text \in {"ts", "short"}
        IN  /\ (dated /\ d.tail = "offset") => px.out = Some(d.t)
            /\ (d.text = "ts" /\ d.tail # "offset")
                  => px.out = Some(NaiveTS(d.t.wall))
            /\ (d.text = "short" /\ d.tail = "")
                  => px.out = Some(NaiveTS(d.t.wall))
            /\ (d.text = "short" /\ d.tail = "junk") => px.out = None
            /\ ~dated => px.out = None

\* a head of 19 characters followed by text that is no offset was parsed
C25_Witness ==
    /\ TimestampParsed
    /\ px.date_str.text = "ts" /\ px.date_str.tail = "junk"
    /\ px.date_str.t.off # 0
    /\ px.out = Some(NaiveTS(px.date_str.t.wall))

----------------------------------------------------------------------------
(* Bucket keys *)

\* p is t with the fields below the period set to zero and the offset kept
ZeroedBelow(p, t, period) ==
    /\ p.off = t.off
    /\ p.wall % period = 0
    /\ p.wall <= t.wall /\ t.wall < p.wall + period
    /\ Instant(p) <= Instant(t)

\* the period starts, each in the offset of its sample, denote one instant
SameOwnKey(s1, s2, period) ==
    /\ s1.metric_name = s2.metric_name /\ s1.unit = s2.unit
    /\ (s1.timestamp.wall - (s1.timestamp.wall % period)) - s1.timestamp.off
         = (s2.timestamp.wall - (s2.timestamp.wall % period)) - s2.timestamp.off

\* the bucket that counts sample smp
BucketOf(buckets, smp, period) ==
    CHOOSE i \in 1..Len(buckets) :
        /\ buckets[i].metric = smp.metric_name /\ buckets[i].unit = smp.unit
        /\ Instant(buckets[i].ts)
             = (smp.timestamp.wall - (smp.timestamp.wall % period)) - smp.timestamp.off

OwnOffsetBuckets(buckets, period) ==
    /\ \A i \in 1..Len(buckets) :
          \E k \in 1..Len(added) :
              /\ ZeroedBelow(buckets[i].ts, added[k].timestamp, period)
              /\ buckets[i].metric = added[k].metric_name
              /\ buckets[i].unit = added[k].unit
              /\ buckets[i].count
                    = Cardinality({j \in 1..Len(added) :
                                      SameOwnKey(added[j], added[k], period)})
    /\ \A j, k \in 1..Len(added) :
          (BucketOf(buckets, added[j], period) = BucketOf(buckets, added[k], period))
             <=> SameOwnKey(added[j], added[k], period)

\* C26: the hourly (daily) period start of a sample is its timestamp with
\* the fields below the hour (day) set to zero and its own offset kept, it
\* is never later than the timestamp, and two samples are counted in one
\* hourly (daily) bucket exactly when they have the same metric and unit and
\* their period starts, each in its own offset, denote the same instant.
C26_OwnOffsetKeys ==
    /\ \A k \in 1..Len(added) :
          /\ ZeroedBelow(truncate_to_hour(added[k].timestamp),
                         added[k].timestamp, MinutesPerHour)
          /\ ZeroedBelow(truncate_to_day(added[k].timestamp),
                         added[k].timestamp, MinutesPerDay)
    /\ OwnOffsetBuckets(aggr.hourly, MinutesPerHour)
    /\ OwnOffsetBuckets(aggr.daily, MinutesPerDay)

\* two samples of one hour of UTC whose own hours differ are in two hourly
\* buckets
C26_Witness ==
    /\ \E j, k \in 1..Len(added) :
          /\ added[j].timestamp.off # added[k].timestamp.off
          /\ Instant(TruncateToHourUTC(added[j].timestamp))
               = Instant(TruncateToHourUTC(added[k].timestamp))
          /\ ~SameOwnKey(added[j], added[k], MinutesPerHour)
    /\ Len(added) = 2 /\ Len(aggr.hourly) = 2

----------------------------------------------------------------------------
(* Counts of the hourly and the daily buckets *)

CountsOf(buckets) == [i \in 1..Len(buckets) |-> buckets[i].count]
SumsOf(buckets) == [i \in 1..Len(buckets) |-> buckets[i].sum]

\* the hourly buckets of the metric and unit of daily bucket d whose hour
\* lies in the day of d
HoursOfDay(d) ==
    SelectSeq(aggr.hourly, LAMBDA h :
        /\ h.metric = d.metric /\ h.unit = d.unit
        /\ Instant(d.ts) <= Instant(h.ts)
        /\ Instant(h.ts) < Instant(d.ts) + MinutesPerDay)

\* C27 as claimed: after any sequence of add_sample and clear calls the
\* counts of the hourly buckets and the counts of the daily buckets both add
\* up to the number of samples added since the last clear, and the count
\* and the sum of every daily bucket are the totals of the counts and the
\* sums of the hourly buckets of its metric and unit whose hour lies in its
\* day.
C27_CountsAddUp ==
    /\ ISum(CountsOf(aggr.hourly)) = Len(added)
    /\ ISum(CountsOf(aggr.daily)) = Len(added)
    /\ \A i \in 1..Len(aggr.daily) :
          LET d == aggr.daily[i]
          IN  /\ d.count = ISum(CountsOf(HoursOfDay(d)))
              /\ d.sum = FSum(SumsOf(HoursOfDay(d)))

----------------------------------------------------------------------------
(* Streaming and batch aggregation *)

RECURSIVE Replay(_, _)
\* the aggregator after add_sample of each of the samples, from a
Replay(a, samples) ==
    IF samples = <<>> THEN a
    ELSE Replay(add_sample(a, Head(samples)), Tail(samples))

----------------------------------------------------------------------------
(* Webhook runs that overlap *)

Stored ==
    [raw |-> raw_pts, hourly |-> hourly_pts, daily |-> daily_pts,
     workouts |-> workout_pts]

EmptyStore == [raw |-> {}, hourly |-> {}, daily |-> {}, workouts |-> {}]

\* the store after one run_import(file, True) of document doc that runs
\* alone from store st to its "return True"
RunImportAlone(st, doc) ==
    LET w == get_last_import_times(st.raw).raw
        h0 == IF w # None
              THEN delete_data_after(st.hourly, truncate_to_hour(w[1]))
              ELSE st.hourly
        d0 == IF w # None
              THEN delete_data_after(st.daily, truncate_to_day(w[1]))
              ELSE st.daily
        samples == get_metrics(Docs[doc], w)
        ws == get_workouts(Docs[doc], w)
        a == Replay(EmptyAggregator, samples)
        fh == Flushes(get_hourly_aggregates(a))
        fd == Flushes(get_daily_aggregates(a))
    IN  [raw |-> WriteAllRaw(st.raw, [k \in 1..Len(samples) |->
                                        RawPoint(samples[k])]),
         hourly |-> ApplyFlushes(h0, fh, Len(fh)),
         daily |-> ApplyFlushes(d0, fd, Len(fd)),
         workouts |-> WriteWorkouts(st.workouts, ws, Len(ws))]

OneAfterTheOther(d1, d2) == RunImportAlone(RunImportAlone(EmptyStore, d1), d2)

\* two run_import threads of two different files have both returned True
BothReturned ==
    /\ Len(hook.threads) = 2
    /\ hook.threads[1].pc = "done" /\ hook.threads[2].pc = "done"
    /\ hook.threads[1].file # hook.threads[2].file

\* every aggregate a thread wrote is still stored under its key
WrittenKept(th) ==
    /\ \A k \in 1..Len(get_hourly_aggregates(th.aggregator)) :
          \E q \in hourly_pts :
             AggKey3(q) = AggKey3(AggPoint(get_hourly_aggregates(th.aggregator)[k]))
    /\ \A k \in 1..Len(get_daily_aggregates(th.aggregator)) :
          \E q \in daily_pts :
             AggKey3(q) = AggKey3(AggPoint(get_daily_aggregates(th.aggregator)[k]))

\* C29 as claimed: when two incremental webhook runs have both returned, the
\* store is the one that running the two imports one after the other leaves
\* (in either order).
C29_InterleavedAsSequential ==
    BothReturned =>
        Stored \in {OneAfterTheOther(hook.threads[1].doc, hook.threads[2].doc),
                    OneAfterTheOther(hook.threads[2].doc, hook.threads[1].doc)}

\* C29, second sentence: when the two runs have returned, no aggregate point
\* one of them wrote is missing from the store.
C29_NoWrittenPointLost ==
    BothReturned => WrittenKept(hook.threads[1]) /\ WrittenKept(hook.threads[2])

----------------------------------------------------------------------------
(* The file a webhook run imports *)

Loaded(th) == th.pc \in {"metrics", "hourly", "daily", "workouts", "done"}

\* C30 as claimed: every run_import thread started for an accepted request
\* loads the payload of that request.
C30_ImportsOwnPayload ==
    \A i \in Threads :
        Loaded(hook.threads[i]) => hook.threads[i].doc = hook.threads[i].posted

====
